---- MODULE Spec2Model ----
(***************************************************************************)
(* Model of the wedding RSVP backend (src/src/app.py, src/src/data.py).    *)
(*                                                                         *)
(* The guest collection is a sequence of WeddingGuestGroup documents in    *)
(* insertion (natural) order.  Under Spec every request handler is one     *)
(* action; the response of the request handled last is kept in `last`.     *)
(* Under SpecConc a handler takes one step per awaited store operation and *)
(* the requests in flight are kept in `tasks`.  SpecLegacy is the earlier  *)
(* single-event application (src/rjwedding-backend).                       *)
(*                                                                         *)
(* Strings the code inspects character by character (display_name for the  *)
(* "&" test, code for the " " removal) are sequences of one-character      *)
(* strings.  A DataFrame cell is <<>> when it is NaN and <<v>> otherwise;  *)
(* an Optional[str] field is <<>> when it is None and <<s>> otherwise.     *)
(***************************************************************************)
EXTENDS Integers, Sequences, FiniteSets, TLC

VARIABLES db, next_id, last, handled, tasks

vars == <<db, next_id, last, handled, tasks>>

-----------------------------------------------------------------------------
(* Bounds of the model *)

\* largest number of rows of an uploaded table
MaxRows == 2

\* number of requests served in one behaviour
MaxRequests == 2

-----------------------------------------------------------------------------
(* Strings *)

AdminName == <<"A", "d", "m", "i", "n">>
NameJ     == <<"J">>
NameJK    == <<"J", "&", "K">>

CodeAd      == <<"a", "d">>
CodeAdSpace == <<"a", " ", "d">>
CodeJk      == <<"j", "k">>

\* Python: sub in s, for a one-character sub
Contains(s, ch) == \E i \in 1..Len(s) : s[i] = ch

\* Python: s.replace(" ", "")
IsNotSpace(ch) == ch # " "

ReplaceSpaces(s) == SelectSeq(s, IsNotSpace)

None == <<>>

Some(v) == <<v>>

-----------------------------------------------------------------------------
(* WeddingGuestGroup *)

\* WeddingGuestGroup(display_name=, party_count=, ceremony_count=, code=,
\* admin=) with every other field at its default, stored under a fresh id
NewGroup(id, display_name, party_count, ceremony_count, code, admin) ==
    [ id                   |-> id,
      display_name         |-> display_name,
      party_count          |-> party_count,
      ceremony_count       |-> ceremony_count,
      plus_one             |-> FALSE,
      party_attendance     |-> -1,
      ceremony_attendance  |-> -1,
      address              |-> None,
      postcode             |-> None,
      email                |-> None,
      phone                |-> None,
      dietary_requirements |-> None,
      song_choice          |-> None,
      admin                |-> admin,
      code                 |-> code,
      parking_required     |-> FALSE ]

\* party_total that reports the stored count of every accepting group
party_total_stored_count(grp) ==
    IF grp.party_attendance < 1 THEN 0 ELSE grp.party_count

party_total(grp) ==
    IF grp.party_attendance < 1 THEN 0
    ELSE IF ~Contains(grp.display_name, "&")
         THEN (IF grp.plus_one THEN 2 ELSE 1)
         ELSE grp.party_count

ceremony_total(grp) ==
    IF grp.ceremony_attendance < 1 THEN 0
    ELSE IF ~Contains(grp.display_name, "&")
         THEN (IF grp.plus_one THEN 2 ELSE 1)
         ELSE grp.ceremony_count

-----------------------------------------------------------------------------
(* The guest store (odmantic engine over one collection) *)

\* the query code == c on one document; a document without the field does
\* not match
Carries(doc, c) == "code" \in DOMAIN doc /\ doc.code = c

\* find_one that falls back to the first document when none carries the code
find_one_or_first(coll, c) ==
    IF \E i \in 1..Len(coll) : Carries(coll[i], c)
    THEN CHOOSE i \in 1..Len(coll) :
            /\ Carries(coll[i], c)
            /\ \A j \in 1..(i - 1) : ~Carries(coll[j], c)
    ELSE IF Len(coll) > 0 THEN 1 ELSE 0

\* engine.find_one(WeddingGuestGroup, code == c): index of the first
\* document carrying the code, 0 when there is none
find_one(coll, c) ==
    IF \E i \in 1..Len(coll) : Carries(coll[i], c)
    THEN CHOOSE i \in 1..Len(coll) :
            /\ Carries(coll[i], c)
            /\ \A j \in 1..(i - 1) : ~Carries(coll[j], c)
    ELSE 0

\* engine.save(grp): upsert by id
save(coll, grp) ==
    IF \E i \in 1..Len(coll) : coll[i].id = grp.id
    THEN [i \in 1..Len(coll) |-> IF coll[i].id = grp.id THEN grp ELSE coll[i]]
    ELSE Append(coll, grp)

RECURSIVE SumOver(_, _)
\* sum([f for grp in coll]) where vals is the list of the summands
SumOver(vals, n) == IF n = 0 THEN 0 ELSE vals[n] + SumOver(vals, n - 1)

Sum(vals) == SumOver(vals, Len(vals))

-----------------------------------------------------------------------------
(* Uploaded tables: the DataFrame pd.read_csv hands to the validator *)

RequiredColumns == {"display_name", "party_count", "ceremony_count", "code"}

NaN == <<>>

Row(display_name, party_count, ceremony_count, code) ==
    [ display_name   |-> display_name,
      party_count    |-> party_count,
      ceremony_count |-> ceremony_count,
      code           |-> code ]

\* the rows uploaded tables are made of
RowSet ==
    { Row(Some(AdminName), Some(2), Some(2), Some(CodeAd)),
      Row(Some(NameJ),     Some(3), Some(0), Some(CodeAdSpace)),
      Row(Some(NameJK),    Some(3), Some(2), Some(CodeJk)),
      Row(Some(NameJ),     Some(1), Some(0), Some(CodeJk)),
      Row(Some(NameJK),    NaN,     Some(2), Some(CodeJk)),
      Row(NaN,             Some(3), Some(2), Some(CodeJk)) }

WellFormedTables ==
    { [columns |-> RequiredColumns, rows |-> rs] :
        rs \in UNION { [1..n -> RowSet] : n \in 0..MaxRows } }

\* DataFrame.drop(columns=[col])
DropColumn(data, col) ==
    [ columns |-> data.columns \ {col},
      rows    |-> [i \in 1..Len(data.rows) |->
                     [c \in data.columns \ {col} |-> data.rows[i][c]]] ]

FixtureTable ==
    [ columns |-> RequiredColumns,
      rows    |-> << Row(Some(NameJK), Some(3), Some(0), Some(CodeJk)),
                     Row(Some(AdminName), Some(2), Some(2), Some(CodeAd)) >> ]

Tables ==
    WellFormedTables \cup { DropColumn(FixtureTable, col) : col \in RequiredColumns }

EmptyTable == [columns |-> {}, rows |-> <<>>]

\* Series.values of one column
Values(data, col) == { data.rows[i][col] : i \in 1..Len(data.rows) }

\* Series.nunique(): the number of distinct values, NaN not counted
nunique(data, col) == Cardinality(Values(data, col) \ {NaN})

\* DataFrame.isnull().any().sum(): the number of columns holding a NaN
NullColumns(data) ==
    Cardinality({ col \in data.columns :
                    \E i \in 1..Len(data.rows) : data.rows[i][col] = NaN })

MsgFormat == "Invalid database format. Must contain the columns: Name, Guest count, Wedding party, and Code"
MsgNames  == "Invalid database. Cannot contain duplicate names."
MsgCodes  == "Invalid database. Cannot contain duplicate codes."
MsgAdmin  == "Invalid database. Must contain an 'Admin'."
MsgNulls  == "Invalid database. Cannot contain null values."

\* data["code"] = data["code"].apply(lambda x: str(x).replace(" ", ""))
NormalizeCodes(data) ==
    [ data EXCEPT !.rows =
        [i \in 1..Len(data.rows) |->
            [data.rows[i] EXCEPT !.code = Some(ReplaceSpaces(data.rows[i].code[1]))]] ]

\* database_validation without the admin presence check
database_validation_no_admin_check(data) ==
    IF \E col \in RequiredColumns : col \notin data.columns
    THEN [status |-> 400, detail |-> MsgFormat, data |-> EmptyTable]
    ELSE IF nunique(data, "display_name") # Len(data.rows)
    THEN [status |-> 400, detail |-> MsgNames, data |-> EmptyTable]
    ELSE IF nunique(data, "code") # Len(data.rows)
    THEN [status |-> 400, detail |-> MsgCodes, data |-> EmptyTable]
    ELSE IF NullColumns(data) > 0
    THEN [status |-> 400, detail |-> MsgNulls, data |-> EmptyTable]
    ELSE [status |-> 200, detail |-> "", data |-> NormalizeCodes(data)]

\* database_validation: status 400 and the detail of the HTTPException it
\* raises, or status 200 and the DataFrame it returns
database_validation(data) ==
    IF \E col \in RequiredColumns : col \notin data.columns
    THEN [status |-> 400, detail |-> MsgFormat, data |-> EmptyTable]
    ELSE IF nunique(data, "display_name") # Len(data.rows)
    THEN [status |-> 400, detail |-> MsgNames, data |-> EmptyTable]
    ELSE IF nunique(data, "code") # Len(data.rows)
    THEN [status |-> 400, detail |-> MsgCodes, data |-> EmptyTable]
    ELSE IF Some(AdminName) \notin Values(data, "display_name")
    THEN [status |-> 400, detail |-> MsgAdmin, data |-> EmptyTable]
    ELSE IF NullColumns(data) > 0
    THEN [status |-> 400, detail |-> MsgNulls, data |-> EmptyTable]
    ELSE [status |-> 200, detail |-> "", data |-> NormalizeCodes(data)]

\* GroupOfRow that carries over the responses stored under the same code
GroupOfRow_keep_responses(row, id) ==
    LET code == ReplaceSpaces(row.code[1])
        i == find_one(db, code)
        grp == NewGroup(id, row.display_name[1], row.party_count[1],
                        row.ceremony_count[1], code, row.display_name[1] = AdminName)
    IN  IF i = 0 THEN grp
        ELSE [grp EXCEPT !.party_attendance = db[i].party_attendance,
                         !.ceremony_attendance = db[i].ceremony_attendance,
                         !.plus_one = db[i].plus_one]

\* the WeddingGuestGroup upload_database builds from one row of df
GroupOfRow(row, id) ==
    NewGroup(id,
             row.display_name[1],
             row.party_count[1],
             row.ceremony_count[1],
             ReplaceSpaces(row.code[1]),
             row.display_name[1] = AdminName)

RECURSIVE iterrows(_, _, _, _)
\* for index, row in df.iterrows(): engine.save(WeddingGuestGroup(...)),
\* from row i on, the next fresh id being id
iterrows(coll, rows, i, id) ==
    IF i > Len(rows) THEN coll
    ELSE iterrows(save(coll, GroupOfRow(rows[i], id)), rows, i + 1, id + 1)

-----------------------------------------------------------------------------
(* Requests and responses *)

\* the codes callers present
Codes == {CodeAd, CodeAdSpace, CodeJk}

\* RSVPRequest.status is any int
StatusSet == {0, 1, 2}

\* RSVPRequest.event values the pattern ^(party|ceremony)$ lets through
\* ($ also matches before a trailing newline)
EventSet == {"party", "ceremony", "party\n"}

SongSet == {"", "Test Song 2"}

RequirementsSet == {"Test Dietary Requirements"}

NoBody == [status |-> 0, event |-> "", flag |-> FALSE, text |-> ""]

Msg404 == "Invalid user code, please login"
Msg403 == "This action is only authorised for admins"
MsgEvent == "Invalid event. Must be party or ceremony."
MsgAws == "AWS credentials not available"

\* what the caller sent and what it got back; the fields a handler does not
\* return stay empty
Response(op, code, status, detail) ==
    [ op             |-> op,
      code           |-> code,
      body           |-> NoBody,
      table          |-> EmptyTable,
      status         |-> status,
      detail         |-> detail,
      grp            |-> <<>>,
      music          |-> <<>>,
      parking_count  |-> 0,
      party_count    |-> 0,
      ceremony_count |-> 0,
      export         |-> <<>>,
      new_ids        |-> <<>> ]

\* the HTTPException fetch_guest_group raises
NotFound(op, code) == Response(op, code, 404, Msg404)

\* the HTTPException is_admin raises
Forbidden(op, code) == Response(op, code, 403, Msg403)

\* is_admin(code): the response of the exception it raises, or status 200
is_admin(op, code) ==
    LET i == find_one(db, code)
    IN  IF i = 0 THEN NotFound(op, code)
        ELSE IF ~db[i].admin THEN Forbidden(op, code)
        ELSE Response(op, code, 200, "")

\* the server takes one more request
Accepting == handled < MaxRequests

Served(resp) ==
    /\ handled' = handled + 1
    /\ last' = resp
    /\ UNCHANGED tasks

-----------------------------------------------------------------------------
(* Handlers *)

\* what GET /{code} answers over the collection coll
get_code_response(coll, code) ==
    LET i == find_one(coll, code)
    IN  IF i = 0 THEN NotFound("get_code", code)
        ELSE [Response("get_code", code, 200, "") EXCEPT !.grp = <<coll[i]>>]

get_code(code) ==
    /\ Accepting
    /\ Served(get_code_response(db, code))
    /\ UNCHANGED <<db, next_id>>

HasSong(grp) == grp.song_choice # None /\ grp.song_choice # Some("")

MusicResponse(grp) ==
    [display_name |-> grp.display_name, song_choice |-> grp.song_choice[1]]

RECURSIVE MusicList(_, _)
\* the MusicResponse list built over the first n documents
MusicList(coll, n) ==
    IF n = 0 THEN <<>>
    ELSE IF HasSong(coll[n])
         THEN Append(MusicList(coll, n - 1), MusicResponse(coll[n]))
         ELSE MusicList(coll, n - 1)

get_music(code) ==
    LET i == find_one(db, code)
    IN  /\ Accepting
        /\ Served(IF i = 0 THEN NotFound("get_music", code)
                  ELSE [Response("get_music", code, 200, "")
                          EXCEPT !.music = MusicList(db, Len(db))])
        /\ UNCHANGED <<db, next_id>>

ParkingCount(coll) ==
    Sum([i \in 1..Len(coll) |-> IF coll[i].parking_required THEN 1 ELSE 0])

get_parking_count(code) ==
    LET i == find_one(db, code)
    IN  /\ Accepting
        /\ Served(IF i = 0 THEN NotFound("get_parking_count", code)
                  ELSE [Response("get_parking_count", code, 200, "")
                          EXCEPT !.parking_count = ParkingCount(db)])
        /\ UNCHANGED <<db, next_id>>

PartyCount(coll) == Sum([i \in 1..Len(coll) |-> party_total(coll[i])])

CeremonyCount(coll) == Sum([i \in 1..Len(coll) |-> ceremony_total(coll[i])])

\* GET /admin/attendance takes no code
get_attendance ==
    /\ Accepting
    /\ Served([Response("get_attendance", <<>>, 200, "")
                 EXCEPT !.party_count = PartyCount(db),
                        !.ceremony_count = CeremonyCount(db)])
    /\ UNCHANGED <<db, next_id>>

\* rsvp that records the status for both events
rsvp_both_events(code, status, event) ==
    LET i == find_one(db, code)
        body == [NoBody EXCEPT !.status = status, !.event = event]
        grp == [db[i] EXCEPT !.party_attendance = status,
                             !.ceremony_attendance = status]
    IN  /\ Accepting
        /\ IF i = 0
           THEN /\ Served([NotFound("rsvp", code) EXCEPT !.body = body])
                /\ UNCHANGED <<db, next_id>>
           ELSE IF event \notin {"party", "ceremony"}
           THEN /\ Served([Response("rsvp", code, 400, MsgEvent) EXCEPT !.body = body])
                /\ UNCHANGED <<db, next_id>>
           ELSE /\ db' = save(db, grp)
                /\ Served([Response("rsvp", code, 200, "")
                             EXCEPT !.body = body, !.grp = <<grp>>])
                /\ UNCHANGED next_id

rsvp(code, status, event) ==
    LET i == find_one(db, code)
        body == [NoBody EXCEPT !.status = status, !.event = event]
        grp == IF event = "party"
               THEN [db[i] EXCEPT !.party_attendance = status]
               ELSE [db[i] EXCEPT !.ceremony_attendance = status]
    IN  /\ Accepting
        /\ IF i = 0
           THEN /\ Served([NotFound("rsvp", code) EXCEPT !.body = body])
                /\ UNCHANGED <<db, next_id>>
           ELSE IF event \notin {"party", "ceremony"}
           THEN /\ Served([Response("rsvp", code, 400, MsgEvent) EXCEPT !.body = body])
                /\ UNCHANGED <<db, next_id>>
           ELSE /\ db' = save(db, grp)
                /\ Served([Response("rsvp", code, 200, "")
                             EXCEPT !.body = body, !.grp = <<grp>>])
                /\ UNCHANGED next_id

\* the four handlers that look a group up, set one field and save it
Update(op, code, body, grp) ==
    /\ Accepting
    /\ IF find_one(db, code) = 0
       THEN /\ Served([NotFound(op, code) EXCEPT !.body = body])
            /\ UNCHANGED <<db, next_id>>
       ELSE /\ db' = save(db, grp)
            /\ Served([Response(op, code, 200, "") EXCEPT !.body = body, !.grp = <<grp>>])
            /\ UNCHANGED next_id

plus_one(code, status) ==
    LET i == find_one(db, code)
    IN  Update("plus_one", code, [NoBody EXCEPT !.flag = status],
               [db[i] EXCEPT !.plus_one = status])

songchoice(code, song_choice) ==
    LET i == find_one(db, code)
    IN  Update("songchoice", code, [NoBody EXCEPT !.text = song_choice],
               [db[i] EXCEPT !.song_choice = Some(song_choice)])

dietary_requirements(code, requirements) ==
    LET i == find_one(db, code)
    IN  Update("dietary_requirements", code, [NoBody EXCEPT !.text = requirements],
               [db[i] EXCEPT !.dietary_requirements = Some(requirements)])

parking_required(code, required) ==
    LET i == find_one(db, code)
    IN  Update("parking_required", code, [NoBody EXCEPT !.flag = required],
               [db[i] EXCEPT !.parking_required = required])

\* credentials: whether boto3 finds AWS credentials
photo(code, credentials) ==
    LET i == find_one(db, code)
    IN  /\ Accepting
        /\ Served(IF i = 0 THEN NotFound("photo", code)
                  ELSE IF ~credentials THEN Response("photo", code, 500, MsgAws)
                  ELSE Response("photo", code, 200, "Photos uploaded!"))
        /\ UNCHANGED <<db, next_id>>

download_database(code) ==
    LET auth == is_admin("download_database", code)
    IN  /\ Accepting
        /\ Served(IF auth.status # 200 THEN auth
                  ELSE [auth EXCEPT !.export = db])
        /\ UNCHANGED <<db, next_id>>

upload_database_denied(code) ==
    LET auth == is_admin("upload_database", code)
    IN  /\ Accepting
        /\ auth.status # 200
        /\ Served(auth)
        /\ UNCHANGED <<db, next_id>>

\* upload_database with the collection emptied before the table is validated
upload_database_remove_first(code, database_data) ==
    LET auth == is_admin("upload_database", code)
        df == database_validation(database_data)
        n == Len(df.data.rows)
    IN  /\ Accepting
        /\ auth.status = 200
        /\ IF df.status # 200
           THEN /\ Served([Response("upload_database", code, df.status, df.detail)
                             EXCEPT !.table = database_data])
                /\ db' = <<>>
                /\ UNCHANGED next_id
           ELSE /\ db' = iterrows(<<>>, df.data.rows, 1, next_id)
                /\ next_id' = next_id + n
                /\ Served([Response("upload_database", code, 200, "Database uploaded!")
                             EXCEPT !.table = database_data,
                                    !.new_ids = [k \in 1..n |-> next_id + k - 1]])

upload_database(code, database_data) ==
    LET auth == is_admin("upload_database", code)
        df == database_validation(database_data)
        n == Len(df.data.rows)
    IN  /\ Accepting
        /\ auth.status = 200
        /\ IF df.status # 200
           THEN /\ Served([Response("upload_database", code, df.status, df.detail)
                             EXCEPT !.table = database_data])
                /\ UNCHANGED <<db, next_id>>
           ELSE /\ db' = iterrows(<<>>, df.data.rows, 1, next_id)
                /\ next_id' = next_id + n
                /\ Served([Response("upload_database", code, 200, "Database uploaded!")
                             EXCEPT !.table = database_data,
                                    !.new_ids = [k \in 1..n |-> next_id + k - 1]])

-----------------------------------------------------------------------------
(* Specification *)

\* a seeded collection: the admin, and one joint invite that has answered
SeedAdmin == NewGroup(1, AdminName, 2, 2, CodeAd, TRUE)

SeedGuest ==
    [ NewGroup(2, NameJK, 3, 2, CodeJk, FALSE)
        EXCEPT !.party_attendance = 1,
               !.ceremony_attendance = 0,
               !.parking_required = TRUE,
               !.song_choice = Some("Test Song") ]

Init ==
    /\ db = <<SeedAdmin, SeedGuest>>
    /\ next_id = 3
    /\ last = Response("", <<>>, 0, "")
    /\ handled = 0
    /\ tasks = <<>>

Next ==
    \/ \E code \in Codes : get_code(code)
    \/ \E code \in Codes : get_music(code)
    \/ \E code \in Codes : get_parking_count(code)
    \/ get_attendance
    \/ \E code \in Codes, status \in StatusSet, event \in EventSet :
          rsvp(code, status, event)
    \/ \E code \in Codes, status \in BOOLEAN : plus_one(code, status)
    \/ \E code \in Codes, song_choice \in SongSet : songchoice(code, song_choice)
    \/ \E code \in Codes, requirements \in RequirementsSet :
          dietary_requirements(code, requirements)
    \/ \E code \in Codes, required \in BOOLEAN : parking_required(code, required)
    \/ \E code \in Codes, credentials \in BOOLEAN : photo(code, credentials)
    \/ \E code \in Codes : download_database(code)
    \/ \E code \in Codes : upload_database_denied(code)
    \/ \E code \in Codes, database_data \in Tables : upload_database(code, database_data)

Spec == Init /\ [][Next]_vars

-----------------------------------------------------------------------------
(* Vocabulary of the claims *)

\* some stored group carries the code
Known(coll, code) == \E i \in 1..Len(coll) : coll[i].code = code

\* where the group a code resolves to is stored: the first stored group
\* that carries the code
Position(coll, code) ==
    CHOOSE i \in 1..Len(coll) :
        /\ coll[i].code = code
        /\ \A j \in 1..Len(coll) : coll[j].code = code => i <= j

Resolve(coll, code) == coll[Position(coll, code)]

\* the request served last was an upload by an admin that was accepted
Imported == last.op = "upload_database" /\ last.status = 200

\* the five ways a table fails validation
MissingColumn(data) == ~(RequiredColumns \subseteq data.columns)

DuplicateName(data) ==
    \E i, j \in 1..Len(data.rows) :
        i # j /\ data.rows[i].display_name = data.rows[j].display_name

DuplicateCode(data) ==
    \E i, j \in 1..Len(data.rows) :
        i # j /\ data.rows[i].code = data.rows[j].code

NoAdminRow(data) ==
    \A i \in 1..Len(data.rows) : data.rows[i].display_name # Some(AdminName)

BlankCell(data) ==
    \E i \in 1..Len(data.rows) : \E col \in data.columns : data.rows[i][col] = NaN

FailsValidation(data) ==
    \/ MissingColumn(data)
    \/ DuplicateName(data)
    \/ DuplicateCode(data)
    \/ NoAdminRow(data)
    \/ BlankCell(data)

-----------------------------------------------------------------------------
(* C1 *)

\* C1: when an admin uploads a table that fails any of the five validation
\* checks, the request is rejected (400) and the collection after it is the
\* collection before it.
ThmC1 ==
    [][ ( /\ last'.op = "upload_database"
          /\ Known(db, last'.code)
          /\ Resolve(db, last'.code).admin
          /\ FailsValidation(last'.table) )
        => ( /\ last'.status = 400
             /\ last'.new_ids = <<>>
             /\ db' = db ) ]_vars

\* a table with a blank count cell was rejected while groups were stored
WitC1 ==
    /\ last.op = "upload_database"
    /\ last.status = 400
    /\ last.detail = MsgNulls
    /\ BlankCell(last.table)
    /\ Len(db) = 2

-----------------------------------------------------------------------------
(* C2 *)

\* C2: after every accepted import the stored codes are pairwise distinct,
\* also when two codes of the table differ only by spaces.
CexC2 ==
    Imported =>
        \A i, j \in 1..Len(db) : i # j => db[i].code # db[j].code

-----------------------------------------------------------------------------
(* C3 *)

AdminOps == {"get_attendance", "download_database", "upload_database"}

NothingReturned(resp) ==
    /\ resp.export = <<>>
    /\ resp.new_ids = <<>>
    /\ resp.party_count = 0
    /\ resp.ceremony_count = 0

\* C3: an admin-scoped operation (aggregate attendance, export, import)
\* answers or acts only for a caller whose code resolves to a group with
\* admin = true; a non-admin group gets 403, an unknown code 404, and then
\* nothing is returned and the collection is unchanged.
CexC3 ==
    [][ last'.op \in AdminOps =>
          IF ~Known(db, last'.code)
          THEN last'.status = 404 /\ NothingReturned(last') /\ db' = db
          ELSE IF ~Resolve(db, last'.code).admin
          THEN last'.status = 403 /\ NothingReturned(last') /\ db' = db
          ELSE TRUE ]_vars

-----------------------------------------------------------------------------
(* C4 *)

StoredCodes(coll) == { coll[i].code : i \in 1..Len(coll) }

\* C4: an accepted import replaces the collection: as many stored rows and
\* new identifiers as input rows, every input row's (space-stripped) code
\* resolves to a group with that row's display_name, party_count and
\* ceremony_count, and a code stored before that the table does not hold is
\* no longer found.
CexC4 ==
    [][ (last'.op = "upload_database" /\ last'.status = 200) =>
          LET rows == last'.table.rows
              codes == { ReplaceSpaces(rows[i].code[1]) : i \in 1..Len(rows) }
          IN  /\ Len(db') = Len(rows)
              /\ Len(last'.new_ids) = Len(rows)
              /\ \A i \in 1..Len(rows) :
                    /\ Known(db', ReplaceSpaces(rows[i].code[1]))
                    /\ LET grp == Resolve(db', ReplaceSpaces(rows[i].code[1]))
                       IN  /\ grp.display_name = rows[i].display_name[1]
                           /\ grp.party_count = rows[i].party_count[1]
                           /\ grp.ceremony_count = rows[i].ceremony_count[1]
              /\ \A code \in StoredCodes(db) \ codes : ~Known(db', code) ]_vars

-----------------------------------------------------------------------------
(* C5 *)

\* C5: after every accepted import exactly one stored row has admin = true,
\* and it is the row named "Admin"; every other row has admin = false.
ThmC5 ==
    Imported =>
        /\ Cardinality({ i \in 1..Len(db) : db[i].admin }) = 1
        /\ \A i \in 1..Len(db) : db[i].admin <=> (db[i].display_name = AdminName)

\* an import stored the admin row and a guest row
WitC5 ==
    /\ Imported
    /\ \E i, j \in 1..Len(db) : db[i].admin /\ ~db[j].admin

-----------------------------------------------------------------------------
(* C6 *)

Max(a, b) == IF a >= b THEN a ELSE b

\* C6: in every reachable state every stored group's party_total and
\* ceremony_total is non-negative, is 0 whenever the attendance is not 1,
\* and is otherwise at most max(stored count, 2).
CexC6 ==
    \A i \in 1..Len(db) :
        /\ party_total(db[i]) >= 0
        /\ ceremony_total(db[i]) >= 0
        /\ db[i].party_attendance # 1 => party_total(db[i]) = 0
        /\ db[i].ceremony_attendance # 1 => ceremony_total(db[i]) = 0
        /\ db[i].party_attendance = 1 =>
              party_total(db[i]) <= Max(db[i].party_count, 2)
        /\ db[i].ceremony_attendance = 1 =>
              ceremony_total(db[i]) <= Max(db[i].ceremony_count, 2)

-----------------------------------------------------------------------------
(* C7 *)

Joint(display_name) == "&" \in { display_name[k] : k \in DOMAIN display_name }

ClaimedTotal(attendance, display_name, plus, count) ==
    CASE attendance < 1 -> 0
      [] attendance >= 1 /\ ~Joint(display_name) /\ plus -> 2
      [] attendance >= 1 /\ ~Joint(display_name) /\ ~plus -> 1
      [] attendance >= 1 /\ Joint(display_name) -> count

ClaimedParty(grp) ==
    ClaimedTotal(grp.party_attendance, grp.display_name, grp.plus_one, grp.party_count)

ClaimedCeremony(grp) ==
    ClaimedTotal(grp.ceremony_attendance, grp.display_name, grp.plus_one,
                 grp.ceremony_count)

\* C7: a group's total for an event is 0 below attendance 1; else 2 or 1 by
\* plus_one when the name has no "&", whatever the stored count; else the
\* stored count, whatever plus_one.  The aggregate read sums the totals of
\* the fields as they are stored when it is served.
ThmC7 ==
    /\ \A i \in 1..Len(db) :
          /\ party_total(db[i]) = ClaimedParty(db[i])
          /\ ceremony_total(db[i]) = ClaimedCeremony(db[i])
    /\ last.op = "get_attendance" =>
          /\ last.party_count = Sum([i \in 1..Len(db) |-> ClaimedParty(db[i])])
          /\ last.ceremony_count = Sum([i \in 1..Len(db) |-> ClaimedCeremony(db[i])])

\* the aggregate was read after a single-named group with a stored count of
\* 2 accepted: it counts 1, next to the 3 of an accepting joint group
WitC7 ==
    /\ last.op = "get_attendance"
    /\ last.party_count = 4
    /\ \E i, j \in 1..Len(db) :
          /\ db[i].party_attendance = 1
          /\ ~Joint(db[i].display_name)
          /\ db[i].party_count = 2
          /\ db[j].party_attendance = 1
          /\ Joint(db[j].display_name)
          /\ db[j].party_count = 3

-----------------------------------------------------------------------------
(* C8 *)

GuestOps ==
    { "get_code", "get_music", "get_parking_count", "rsvp", "plus_one",
      "songchoice", "dietary_requirements", "parking_required", "photo" }

\* C8: a guest-code-scoped operation called with a code no stored group
\* carries answers 404 and leaves the collection unchanged; a profile read
\* of a known code repeated with no write in between answers the same.
ThmC8 ==
    [][ /\ (last'.op \in GuestOps /\ ~Known(db, last'.code)) =>
              /\ last'.status = 404
              /\ last'.grp = <<>>
              /\ last'.music = <<>>
              /\ db' = db
        /\ ( /\ last.op = "get_code"
             /\ last'.op = "get_code"
             /\ last'.code = last.code
             /\ Known(db, last.code) ) =>
              /\ last'.status = 200
              /\ last' = last ]_vars

\* a song choice was sent under a code no group carries
WitC8 ==
    /\ last.op = "songchoice"
    /\ ~Known(db, last.code)
    /\ last.status = 404

-----------------------------------------------------------------------------
(* C9 *)

\* C9: an RSVP with a known code, event party or ceremony and status s sets
\* that event's attendance of the code's group to s and nothing else; the
\* response carries the value and so does a profile read that follows.
ThmC9 ==
    [][ ( /\ last'.op = "rsvp"
          /\ last'.body.event \in {"party", "ceremony"}
          /\ Known(db, last'.code) ) =>
          LET i == Position(db, last'.code)
              s == last'.body.status
              party == last'.body.event = "party"
          IN  /\ last'.status = 200
              /\ Len(db') = Len(db)
              /\ \A j \in 1..Len(db) : j # i => db'[j] = db[j]
              /\ db'[i] = IF party
                          THEN [db[i] EXCEPT !.party_attendance = s]
                          ELSE [db[i] EXCEPT !.ceremony_attendance = s]
              /\ Len(last'.grp) = 1
              /\ (IF party THEN last'.grp[1].party_attendance
                           ELSE last'.grp[1].ceremony_attendance) = s
              /\ get_code_response(db', last'.code).grp = last'.grp ]_vars

\* a ceremony RSVP was stored for a group whose party answer differs
WitC9 ==
    /\ last.op = "rsvp"
    /\ last.status = 200
    /\ last.body.event = "ceremony"
    /\ last.grp[1].ceremony_attendance = last.body.status
    /\ last.grp[1].party_attendance # last.grp[1].ceremony_attendance

-----------------------------------------------------------------------------
(* C10 *)

\* C10: right after an accepted import every stored group has both
\* attendances at -1 and plus_one false, whatever was stored before, so the
\* aggregate is 0 for both events.
ThmC10 ==
    Imported =>
        /\ \A i \in 1..Len(db) :
              /\ db[i].party_attendance = -1
              /\ db[i].ceremony_attendance = -1
              /\ db[i].plus_one = FALSE
        /\ PartyCount(db) = 0
        /\ CeremonyCount(db) = 0

\* the first request was an import into the seeded collection, where the
\* group of code "jk" had accepted the party; the table holds that code
WitC10 ==
    /\ Imported
    /\ handled = 1
    /\ SeedGuest.party_attendance = 1
    /\ Known(db, SeedGuest.code)

-----------------------------------------------------------------------------
(* C13 *)

\* the number of distinct cells of a column, a blank cell being one of them
DistinctCells(data, col) ==
    Cardinality({ data.rows[i][col] : i \in 1..Len(data.rows) })

\* the error of the earliest validation step a table violates, "" when it
\* violates none
EarliestRejection(data) ==
    IF MissingColumn(data) THEN MsgFormat
    ELSE IF DistinctCells(data, "display_name") # Len(data.rows) THEN MsgNames
    ELSE IF DistinctCells(data, "code") # Len(data.rows) THEN MsgCodes
    ELSE IF NoAdminRow(data) THEN MsgAdmin
    ELSE IF BlankCell(data) THEN MsgNulls
    ELSE ""

\* C13: the validator reports the error of the earliest of the steps schema,
\* name uniqueness, code uniqueness, admin presence, null cells that the
\* table violates; a table with all columns, as many distinct names and
\* codes as rows and an admin row, but a blank cell, gets the null-value
\* error.
CexC13 ==
    (last.op = "upload_database" /\ last.status = 400) =>
        last.detail = EarliestRejection(last.table)

-----------------------------------------------------------------------------
(* Handlers step by step: one step per awaited store operation *)

\* $set of one field on a document
SetField(doc, field, value) ==
    [f \in DOMAIN doc \cup {field} |-> IF f = field THEN value ELSE doc[f]]

\* engine.save of an instance fetched from the store with the whole instance
\* written back
save_whole_instance(coll, grp, field) == save(coll, grp)

\* engine.save of an instance fetched from the store, of which `field` was
\* assigned since: update_one({_id}, {$set: {field: value}}, upsert=True)
save_modified(coll, grp, field) ==
    IF \E i \in 1..Len(coll) : coll[i].id = grp.id
    THEN [i \in 1..Len(coll) |->
            IF coll[i].id = grp.id THEN SetField(coll[i], field, grp[field])
            ELSE coll[i]]
    ELSE Append(coll, [f \in {"id", field} |-> grp[f]])

\* a request in flight: pc is the store operation it awaits next, grp the
\* instance it fetched, table and i the validated rows and the next row
Task(op, code, body) ==
    [ op    |-> op,
      code  |-> code,
      body  |-> body,
      pc    |-> "done",
      grp   |-> <<>>,
      field |-> "",
      table |-> EmptyTable,
      i     |-> 0,
      resp  |-> Response(op, code, 0, "") ]

\* the request is answered at once
Answered(task, resp) ==
    /\ tasks' = Append(tasks, [task EXCEPT !.resp = resp])
    /\ last' = resp

\* the request is left awaiting a store operation
Suspended(task) ==
    /\ tasks' = Append(tasks, task)
    /\ UNCHANGED last

conc_get_code(code) ==
    /\ Accepting
    /\ handled' = handled + 1
    /\ Answered(Task("get_code", code, NoBody), get_code_response(db, code))
    /\ UNCHANGED <<db, next_id>>

\* grp = await fetch_guest_group(code); grp.field = value
fetch(op, code, body, field, value) ==
    LET i == find_one(db, code)
        task == Task(op, code, body)
    IN  /\ Accepting
        /\ handled' = handled + 1
        /\ IF i = 0
           THEN Answered(task, [NotFound(op, code) EXCEPT !.body = body])
           ELSE Suspended([task EXCEPT !.pc = "save",
                                       !.grp = <<SetField(db[i], field, value)>>,
                                       !.field = field])
        /\ UNCHANGED <<db, next_id>>

conc_rsvp(code, status, event) ==
    LET body == [NoBody EXCEPT !.status = status, !.event = event]
    IN  IF event = "party" THEN fetch("rsvp", code, body, "party_attendance", status)
        ELSE IF event = "ceremony"
        THEN fetch("rsvp", code, body, "ceremony_attendance", status)
        ELSE /\ Accepting
             /\ handled' = handled + 1
             /\ Answered(Task("rsvp", code, body),
                         IF find_one(db, code) = 0
                         THEN [NotFound("rsvp", code) EXCEPT !.body = body]
                         ELSE [Response("rsvp", code, 400, MsgEvent) EXCEPT !.body = body])
             /\ UNCHANGED <<db, next_id>>

conc_plus_one(code, status) ==
    fetch("plus_one", code, [NoBody EXCEPT !.flag = status], "plus_one", status)

conc_songchoice(code, song_choice) ==
    fetch("songchoice", code, [NoBody EXCEPT !.text = song_choice],
          "song_choice", Some(song_choice))

conc_dietary_requirements(code, requirements) ==
    fetch("dietary_requirements", code, [NoBody EXCEPT !.text = requirements],
          "dietary_requirements", Some(requirements))

conc_parking_required(code, required) ==
    fetch("parking_required", code, [NoBody EXCEPT !.flag = required],
          "parking_required", required)

\* await engine.save(grp); return grp
commit(k) ==
    LET task == tasks[k]
        resp == [Response(task.op, task.code, 200, "")
                   EXCEPT !.body = task.body, !.grp = task.grp]
    IN  /\ task.pc = "save"
        /\ db' = save_modified(db, task.grp[1], task.field)
        /\ tasks' = [tasks EXCEPT ![k].pc = "done", ![k].resp = resp]
        /\ last' = resp
        /\ UNCHANGED <<next_id, handled>>

\* await is_admin(code); df = database_validation(pd.read_csv(...))
conc_upload_database(code, database_data) ==
    LET auth == is_admin("upload_database", code)
        df == database_validation(database_data)
        task == Task("upload_database", code, NoBody)
    IN  /\ Accepting
        /\ handled' = handled + 1
        /\ IF auth.status # 200 THEN Answered(task, auth)
           ELSE IF df.status # 200
           THEN Answered(task, [Response("upload_database", code, df.status, df.detail)
                                  EXCEPT !.table = database_data])
           ELSE Suspended([task EXCEPT
                             !.pc = "remove",
                             !.table = df.data,
                             !.i = 1,
                             !.resp = [Response("upload_database", code, 0, "")
                                         EXCEPT !.table = database_data]])
        /\ UNCHANGED <<db, next_id>>

\* upload_remove that leaves the stored documents in place
upload_remove_nothing(k) ==
    /\ tasks[k].pc = "remove"
    /\ tasks' = [tasks EXCEPT ![k].pc = "insert"]
    /\ UNCHANGED <<db, next_id, last, handled>>

\* await engine.remove(WeddingGuestGroup)
upload_remove(k) ==
    /\ tasks[k].pc = "remove"
    /\ db' = <<>>
    /\ tasks' = [tasks EXCEPT ![k].pc = "insert"]
    /\ UNCHANGED <<next_id, last, handled>>

\* saved_grp = await engine.save(grp); new_ids.append(saved_grp.id)
upload_insert(k) ==
    LET task == tasks[k]
        rows == task.table.rows
        new_ids == Append(task.resp.new_ids, next_id)
        final == task.i = Len(rows)
        resp == [task.resp EXCEPT !.new_ids = new_ids,
                                  !.status = IF final THEN 200 ELSE 0,
                                  !.detail = IF final THEN "Database uploaded!" ELSE ""]
    IN  /\ task.pc = "insert"
        /\ task.i <= Len(rows)
        /\ db' = save(db, GroupOfRow(rows[task.i], next_id))
        /\ next_id' = next_id + 1
        /\ tasks' = [tasks EXCEPT ![k].i = task.i + 1,
                                  ![k].resp = resp,
                                  ![k].pc = IF final THEN "done" ELSE "insert"]
        /\ last' = IF final THEN resp ELSE last
        /\ UNCHANGED handled

\* the import stops between two store operations (the server stops, or a
\* save raises): nothing is undone
upload_stops(k) ==
    LET resp == [tasks[k].resp EXCEPT !.status = 500]
    IN  /\ tasks[k].pc = "insert"
        /\ tasks' = [tasks EXCEPT ![k].pc = "stopped", ![k].resp = resp]
        /\ last' = resp
        /\ UNCHANGED <<db, next_id, handled>>

\* the requests that run concurrently
ConcCodes == {CodeAd, CodeJk}

ConcTables == {FixtureTable, DropColumn(FixtureTable, "code")}

NextConc ==
    \/ \E code \in ConcCodes : conc_get_code(code)
    \/ \E code \in ConcCodes, event \in EventSet : conc_rsvp(code, 1, event)
    \/ \E code \in ConcCodes : conc_plus_one(code, TRUE)
    \/ \E code \in ConcCodes : conc_songchoice(code, "Test Song 2")
    \/ \E code \in ConcCodes, requirements \in RequirementsSet :
          conc_dietary_requirements(code, requirements)
    \/ \E code \in ConcCodes : conc_parking_required(code, FALSE)
    \/ \E code \in ConcCodes, database_data \in ConcTables :
          conc_upload_database(code, database_data)
    \/ \E k \in 1..Len(tasks) : commit(k)
    \/ \E k \in 1..Len(tasks) : upload_remove(k)
    \/ \E k \in 1..Len(tasks) : upload_insert(k)
    \/ \E k \in 1..Len(tasks) : upload_stops(k)

SpecConc == Init /\ [][NextConc]_vars

-----------------------------------------------------------------------------
(* C11 *)

\* the request has been answered or has stopped
Over(task) == task.pc \in {"done", "stopped"}

\* a field update that went through its save
Updated(task) == task.field # "" /\ task.pc = "done"

\* an import that passed validation
Accepted(task) == task.op = "upload_database" /\ task.i > 0

\* no request other than j and k writes to the store
OnlyWriters(j, k) ==
    \A m \in 1..Len(tasks) :
        m \notin {j, k} => (tasks[m].field = "" /\ ~Accepted(tasks[m]))

\* the stored group of the instance carries the value the request assigned
Carried(task) ==
    \E i \in 1..Len(db) :
        /\ db[i].id = task.grp[1].id
        /\ task.field \in DOMAIN db[i]
        /\ db[i][task.field] = task.grp[1][task.field]

\* C11: when two field updates of the same group that assign different fields
\* have both completed, in whatever order their lookups and saves were
\* interleaved, and no other request writes to the store, the stored group
\* carries the value of each.
ThmC11 ==
    \A j, k \in 1..Len(tasks) :
        ( /\ j # k
          /\ Updated(tasks[j]) /\ Updated(tasks[k])
          /\ tasks[j].grp[1].id = tasks[k].grp[1].id
          /\ tasks[j].field # tasks[k].field
          /\ OnlyWriters(j, k) )
        => (Carried(tasks[j]) /\ Carried(tasks[k]))

\* a song choice and dietary requirements for the same code, each looked up
\* before the other was saved, both completed
WitC11 ==
    /\ Len(tasks) = 2
    /\ tasks[1].op = "songchoice" /\ tasks[2].op = "dietary_requirements"
    /\ tasks[1].code = CodeJk /\ tasks[2].code = CodeJk
    /\ Updated(tasks[1]) /\ Updated(tasks[2])
    /\ tasks[1].grp[1].dietary_requirements = SeedGuest.dietary_requirements
    /\ tasks[2].grp[1].song_choice = SeedGuest.song_choice
    /\ tasks[2].grp[1].dietary_requirements # SeedGuest.dietary_requirements
    /\ Carried(tasks[1]) /\ Carried(tasks[2])

-----------------------------------------------------------------------------
(* C12 *)

\* the import has deleted the old documents
PastRemove(task) == Accepted(task) /\ task.pc \in {"insert", "stopped", "done"}

\* the import is the only request that writes to the store
SoleWriter(k) == OnlyWriters(k, k)

\* the groups of the rows the import has inserted so far
InsertedRows(task) ==
    [n \in 1..(task.i - 1) |-> GroupOfRow(task.table.rows[n], task.resp.new_ids[n])]

\* a get_code request for the code is answered in this step
Reads(code) ==
    /\ Len(tasks') = Len(tasks) + 1
    /\ tasks'[Len(tasks')].op = "get_code"
    /\ tasks'[Len(tasks')].code = code

\* C12: once an accepted import has deleted the old documents, and while it
\* is the only request writing, the collection holds exactly the rows it has
\* inserted so far, whether it goes on, has finished or has stopped after k
\* inserts (nothing is rolled back); a reader in that window is answered
\* NotFound for every code that is not among those rows, the codes of the
\* old and of the new list included.
ThmC12 ==
    [][ \A k \in 1..Len(tasks) :
          (PastRemove(tasks[k]) /\ SoleWriter(k)) =>
              /\ db = InsertedRows(tasks[k])
              /\ \A code \in ConcCodes :
                    Reads(code) =>
                        (last'.status = 404 <=> ~Known(InsertedRows(tasks[k]), code))
      ]_vars

\* an import of two rows stopped after its first insert; a reader was
\* answered NotFound for a code that the old and the new list both hold
WitC12 ==
    /\ Len(tasks) = 2
    /\ Accepted(tasks[1]) /\ tasks[1].pc = "stopped"
    /\ Len(tasks[1].table.rows) = 2 /\ tasks[1].i = 2
    /\ Len(db) = 1 /\ db[1].id \notin {SeedAdmin.id, SeedGuest.id}
    /\ tasks[2].op = "get_code" /\ tasks[2].code = CodeAd
    /\ tasks[2].resp.status = 404
    /\ Known(<<SeedAdmin, SeedGuest>>, CodeAd)
    /\ \E n \in 1..2 : GroupOfRow(tasks[1].table.rows[n], 0).code = CodeAd

-----------------------------------------------------------------------------
(* C14 *)

\* every request has been answered and none has stopped
AllCompleted == \A m \in 1..Len(tasks) : tasks[m].pc = "done"

\* the import is the only accepted import among the requests
OnlyImport(k) ==
    /\ Accepted(tasks[k])
    /\ \A m \in 1..Len(tasks) : m # k => ~Accepted(tasks[m])

\* C14: when an import and the field updates that ran beside it have all
\* completed, the collection holds exactly the imported rows: as many
\* documents as the table has rows, and none of the documents that were
\* stored before the import.
CexC14 ==
    \A k \in 1..Len(tasks) :
        (AllCompleted /\ OnlyImport(k)) =>
            /\ Len(db) = Len(tasks[k].table.rows)
            /\ \A i \in 1..Len(db) : db[i].id \notin {SeedAdmin.id, SeedGuest.id}

-----------------------------------------------------------------------------
(* The legacy application, src/rjwedding-backend: one combined event.        *)
(* GET /music is declared after GET /{code} and is never routed to.          *)

\* WeddingGuestGroup(display_name=..., count=..., wedding_party_count=..., code=...)
legacy_WeddingGuestGroup(id, display_name, count, wedding_party_count, code, admin) ==
    [ id                   |-> id,
      display_name         |-> display_name,
      count                |-> count,
      wedding_party_count  |-> wedding_party_count,
      address              |-> None,
      postcode             |-> None,
      email                |-> None,
      phone                |-> None,
      dietary_requirements |-> None,
      song_choice          |-> None,
      attendance           |-> -1,
      admin                |-> admin,
      code                 |-> code,
      parking_required     |-> FALSE ]

\* the fields of the model that have no default
legacy_RequiredFields == {"display_name", "count", "wedding_party_count", "code"}

\* the keyword arguments upload_database passes to the model
legacy_Keywords == {"display_name", "count", "wedding_party", "code"}

\* the columns upload_database reads from each row
legacy_Columns == {"Name", "Guest count", "Wedding party", "Code"}

legacy_Row(name, count, wedding_party, code) ==
    [c \in legacy_Columns |->
        IF c = "Name" THEN name
        ELSE IF c = "Guest count" THEN count
        ELSE IF c = "Wedding party" THEN wedding_party
        ELSE code]

legacy_FixtureTable ==
    [ columns |-> legacy_Columns,
      rows    |-> << legacy_Row(NameJK, 3, 2, CodeJk),
                     legacy_Row(AdminName, 2, 2, CodeAd) >> ]

\* uploaded files: the fixture, the fixture without one column, a header only
legacy_Tables ==
    {legacy_FixtureTable}
        \cup { DropColumn(legacy_FixtureTable, col) : col \in legacy_Columns }
        \cup { [columns |-> legacy_Columns, rows |-> <<>>] }

legacy_Msg403Download == "You are not authorised to download the database"
legacy_Msg403Upload == "You are not authorised to upload the database"
legacy_MsgFormat == "Invalid database format"

legacy_get_code(code) ==
    /\ Accepting
    /\ Served(get_code_response(db, code))
    /\ UNCHANGED <<db, next_id>>

legacy_rsvp(code, status) ==
    LET i == find_one(db, code)
    IN  Update("rsvp", code, [NoBody EXCEPT !.status = status],
               IF i = 0 THEN <<>> ELSE [db[i] EXCEPT !.attendance = status])

legacy_songchoice(code, song_choice) ==
    LET i == find_one(db, code)
    IN  Update("songchoice", code, [NoBody EXCEPT !.text = song_choice],
               IF i = 0 THEN <<>> ELSE [db[i] EXCEPT !.song_choice = Some(song_choice)])

legacy_dietary_requirements(code, requirements) ==
    LET i == find_one(db, code)
    IN  Update("dietary_requirements", code, [NoBody EXCEPT !.text = requirements],
               IF i = 0 THEN <<>>
               ELSE [db[i] EXCEPT !.dietary_requirements = Some(requirements)])

\* a body with files is turned down before the handler runs
legacy_photo(code, files) ==
    /\ Accepting
    /\ Served(IF files > 0 THEN Response("photo", code, 422, "")
              ELSE IF find_one(db, code) = 0 THEN NotFound("photo", code)
              ELSE Response("photo", code, 200, "Photos uploaded!"))
    /\ UNCHANGED <<db, next_id>>

legacy_download_database(code) ==
    LET i == find_one(db, code)
    IN  /\ Accepting
        /\ Served(IF i = 0 THEN NotFound("download_database", code)
                  ELSE IF ~db[i].admin
                  THEN Response("download_database", code, 403, legacy_Msg403Download)
                  ELSE [Response("download_database", code, 200, "") EXCEPT !.export = db])
        /\ UNCHANGED <<db, next_id>>

\* the row loop of upload_database from row i on: the status it ends with
\* and the collection it leaves
RECURSIVE legacy_iterrows(_, _, _, _)
legacy_iterrows(coll, df, i, id) ==
    IF i > Len(df.rows) THEN [status |-> 200, coll |-> coll]
    ELSE IF ~(legacy_Columns \subseteq DOMAIN df.rows[i])
    THEN [status |-> 400, coll |-> coll]
    ELSE IF ~(legacy_RequiredFields \subseteq legacy_Keywords)
    THEN [status |-> 500, coll |-> coll]
    ELSE legacy_iterrows(
            save(coll, legacy_WeddingGuestGroup(
                          id, df.rows[i]["Name"], df.rows[i]["Guest count"],
                          df.rows[i]["Wedding party"], df.rows[i]["Code"], FALSE)),
            df, i + 1, id + 1)

legacy_upload_database(code, file) ==
    LET i == find_one(db, code)
        loop == legacy_iterrows(<<>>, file, 1, next_id)
        resp == Response("upload_database", code, loop.status,
                         IF loop.status = 200 THEN "Database uploaded!"
                         ELSE IF loop.status = 400 THEN legacy_MsgFormat
                         ELSE "")
    IN  /\ Accepting
        /\ IF i = 0
           THEN /\ Served(NotFound("upload_database", code))
                /\ UNCHANGED <<db, next_id>>
           ELSE IF ~db[i].admin
           THEN /\ Served(Response("upload_database", code, 403, legacy_Msg403Upload))
                /\ UNCHANGED <<db, next_id>>
           ELSE /\ db' = loop.coll
                /\ next_id' = next_id + Len(loop.coll)
                /\ Served([resp EXCEPT !.table = file])

legacy_SeedAdmin == legacy_WeddingGuestGroup(1, AdminName, 2, 2, CodeAd, TRUE)

legacy_SeedGuest ==
    [legacy_WeddingGuestGroup(2, NameJK, 3, 2, CodeJk, FALSE)
        EXCEPT !.attendance = 1, !.song_choice = Some("Test Song")]

InitLegacy ==
    /\ db = <<legacy_SeedAdmin, legacy_SeedGuest>>
    /\ next_id = 3
    /\ last = Response("", <<>>, 0, "")
    /\ handled = 0
    /\ tasks = <<>>

NextLegacy ==
    \/ \E code \in Codes : legacy_get_code(code)
    \/ \E code \in Codes, status \in StatusSet : legacy_rsvp(code, status)
    \/ \E code \in Codes, song_choice \in SongSet : legacy_songchoice(code, song_choice)
    \/ \E code \in Codes, requirements \in RequirementsSet :
          legacy_dietary_requirements(code, requirements)
    \/ \E code \in Codes, files \in {0, 1} : legacy_photo(code, files)
    \/ \E code \in Codes : legacy_download_database(code)
    \/ \E code \in Codes, file \in legacy_Tables : legacy_upload_database(code, file)

SpecLegacy == InitLegacy /\ [][NextLegacy]_vars

-----------------------------------------------------------------------------
(* C15 *)

\* C15: a legacy upload that is answered with the format error, because the
\* table lacks one of the columns Name, Guest count, Wedding party and Code,
\* leaves the collection as it was before the request.
CexC15 ==
    [][ ( /\ handled' = handled + 1
          /\ last'.op = "upload_database"
          /\ last'.status = 400
          /\ last'.detail = legacy_MsgFormat
          /\ ~(legacy_Columns \subseteq last'.table.columns) )
        => db' = db ]_vars

====
